---------------------------- MODULE Spec2Model ----------------------------
(***************************************************************************)
(* Book-Management-API (src/main.go): an in-memory map of books guarded by *)
(* one sync.Mutex and served by five net/http handlers.                    *)
(*                                                                         *)
(* Every request is served by its own goroutine.  A goroutine's handler is *)
(* modelled statement group by statement group: taking the mutex, each     *)
(* read or write of the books map, and the deferred Unlock are separate    *)
(* steps, so that the interleavings the mutex forbids are forbidden by the *)
(* mutex of the model and by nothing else.                                 *)
(***************************************************************************)
EXTENDS Integers, Sequences, FiniteSets, TLC

(***************************************************************************)
(* Bounds of the model.                                                    *)
(***************************************************************************)
\* goroutines serving requests at the same time under Spec and SpecCreates
NumReqs == 2
\* goroutines serving requests at the same time under SpecWide
NumClients == 1

VARIABLES
    books,   \* the books map: a function from the stored ids to Book records
    mtx,     \* the sync.Mutex: TRUE while locked
    gr,      \* gr[r]: the goroutine serving worker r's current request
    last     \* history: per id, the last mutation that was answered 200/201/204

vars == <<books, mtx, gr, last>>

(***************************************************************************)
(* type Book, and the zero value Go gives a declared Book.                 *)
(***************************************************************************)
Book(id, title, description, author, year) ==
    [ID |-> id, Title |-> title, Description |-> description,
     Author |-> author, PublicationYear |-> year]

ZeroBook == Book(0, "", "", "", 0)

\* books = make(map[int]Book)
EmptyStore == [i \in {} |-> ZeroBook]

(***************************************************************************)
(* JSON values on the wire.  A number and a string are different JSON      *)
(* types; an object is a function from its keys to values.  A body that is *)
(* not JSON at all has kind "garbage".                                     *)
(***************************************************************************)
Num(n) == [t |-> "num", n |-> n]
Str(s) == [t |-> "str", s |-> s]

JsonObject(f) == [kind |-> "object", fields |-> f]
Garbage       == [kind |-> "garbage"]
NoBody        == [kind |-> "none"]
Text(msg)     == [kind |-> "text", text |-> msg]

\* The keys encoding/json maps to the fields of Book, by the struct tags.
NumKeys == {"id", "publication_year"}
StrKeys == {"title", "description", "author"}

\* json.NewDecoder(r.Body).Decode(&b): a body that is no JSON object, or one
\* of whose known keys holds a value of the wrong JSON type, is an error;
\* a key the body leaves out keeps the zero value of its field.
Decode(body) ==
    IF body.kind # "object"
    THEN [err |-> TRUE, book |-> ZeroBook]
    ELSE LET f == body.fields
             bad == \/ \E k \in NumKeys \cap DOMAIN f : f[k].t # "num"
                    \/ \E k \in StrKeys \cap DOMAIN f : f[k].t # "str"
             num(k) == IF k \in DOMAIN f /\ f[k].t = "num" THEN f[k].n ELSE 0
             str(k) == IF k \in DOMAIN f /\ f[k].t = "str" THEN f[k].s ELSE ""
         IN  [err  |-> bad,
              book |-> Book(num("id"), str("title"), str("description"),
                            str("author"), num("publication_year"))]

\* json.NewEncoder(w).Encode(book): every field is written, zero or not.
EncodeMut(b) ==
    JsonObject([id |-> Num(b.ID), title |-> Str(b.Title),
                description |-> Str(b.Description), author |-> Str(""),
                publication_year |-> Num(b.PublicationYear)])

Encode(b) ==
    JsonObject([id |-> Num(b.ID), title |-> Str(b.Title),
                description |-> Str(b.Description), author |-> Str(b.Author),
                publication_year |-> Num(b.PublicationYear)])

\* strconv.Itoa, as encoding/json uses it for the int keys of a map.
DigitStr(d) ==
    CASE d = 0 -> "0" [] d = 1 -> "1" [] d = 2 -> "2" [] d = 3 -> "3"
      [] d = 4 -> "4" [] d = 5 -> "5" [] d = 6 -> "6" [] d = 7 -> "7"
      [] d = 8 -> "8" [] d = 9 -> "9"

RECURSIVE Itoa(_)
Itoa(n) ==
    IF n < 0 THEN "-" \o Itoa(0 - n)
    ELSE IF n < 10 THEN DigitStr(n)
    ELSE Itoa(n \div 10) \o DigitStr(n % 10)

\* json.NewEncoder(w).Encode(books): a JSON object keyed by the decimal ids.
EncodeBooksMut(store) ==
    JsonObject([k \in {Itoa(Cardinality({j \in DOMAIN store : j < i})) : i \in DOMAIN store} |->
                  Encode(store[CHOOSE i \in DOMAIN store :
                                  Itoa(Cardinality({j \in DOMAIN store : j < i})) = k])])

EncodeBooks(store) ==
    JsonObject([k \in {Itoa(i) : i \in DOMAIN store} |->
                  Encode(store[CHOOSE i \in DOMAIN store : Itoa(i) = k])])

(***************************************************************************)
(* Paths are sequences of characters.                                      *)
(***************************************************************************)
BooksPath  == <<"/", "b", "o", "o", "k", "s">>
ItemPrefix == <<"/", "b", "o", "o", "k", "s", "/">>

HasPrefix(s, p) == Len(s) >= Len(p) /\ SubSeq(s, 1, Len(p)) = p

\* strings.TrimPrefix
TrimPrefix(s, p) == IF HasPrefix(s, p) THEN SubSeq(s, Len(p) + 1, Len(s)) ELSE s

Digits == {"0", "1", "2", "3", "4", "5", "6", "7", "8", "9"}

DigitVal(c) ==
    CASE c = "0" -> 0 [] c = "1" -> 1 [] c = "2" -> 2 [] c = "3" -> 3
      [] c = "4" -> 4 [] c = "5" -> 5 [] c = "6" -> 6 [] c = "7" -> 7
      [] c = "8" -> 8 [] c = "9" -> 9

RECURSIVE DigitsVal(_)
DigitsVal(s) ==
    IF s = <<>> THEN 0
    ELSE 10 * DigitsVal(SubSeq(s, 1, Len(s) - 1)) + DigitVal(s[Len(s)])

\* strconv.Atoi: an optional sign, then at least one digit and digits only.
\* (The paths of the model are far too short to overflow an int.)
AtoiMut(s) ==
    LET signed == s # <<>> /\ Head(s) \in {"+", "-"}
        ds     == IF signed THEN Tail(s) ELSE s
        digs   == SelectSeq(ds, LAMBDA c : c \in Digits)
        mag    == DigitsVal(digs)
    IN  [err |-> FALSE,
         val |-> IF signed /\ Head(s) = "-" THEN 0 - mag ELSE mag]

Atoi(s) ==
    LET signed == s # <<>> /\ Head(s) \in {"+", "-"}
        ds     == IF signed THEN Tail(s) ELSE s
    IN  IF ds = <<>> \/ \E i \in 1..Len(ds) : ds[i] \notin Digits
        THEN [err |-> TRUE, val |-> 0]
        ELSE [err |-> FALSE,
              val |-> IF Head(s) = "-" THEN 0 - DigitsVal(ds) ELSE DigitsVal(ds)]


(***************************************************************************)
(* Responses.  http.Error answers in plain text; a handler that sets the   *)
(* Content-Type header itself is answered with that type; a body written   *)
(* with no Content-Type set gets the type net/http sniffs from it, and     *)
(* http.DetectContentType knows no signature for JSON text.                *)
(***************************************************************************)
PlainText  == "text/plain; charset=utf-8"
JsonType   == "application/json"

NoResp == [status |-> 0, ctype |-> "", body |-> NoBody]

HttpError(code, msg) == [status |-> code, ctype |-> PlainText, body |-> Text(msg)]

DetectContentType(body) == IF body.kind = "none" THEN "" ELSE PlainText

Respond(header, code, body) ==
    [status |-> code,
     ctype  |-> IF header # "" THEN header ELSE DetectContentType(body),
     body   |-> body]

(***************************************************************************)
(* The books map.                                                          *)
(***************************************************************************)
\* _, exists := books[id]
ExistsMut(store, id) == DOMAIN store # {}

Exists(store, id) == id \in DOMAIN store

\* books[id] = b
PutMut(store, id, b) ==
    [i \in DOMAIN store \cup {id} |->
        IF i = id
        THEN IF id \in DOMAIN store
             THEN [b EXCEPT !.Author = IF @ = "" THEN store[id].Author ELSE @]
             ELSE b
        ELSE store[i]]

Put(store, id, b) ==
    [i \in DOMAIN store \cup {id} |-> IF i = id THEN b ELSE store[i]]

\* delete(books, id)
RemoveMut(store, id) == store

Remove(store, id) == [i \in DOMAIN store \ {id} |-> store[i]]

(***************************************************************************)
(* Requests and routing.                                                   *)
(***************************************************************************)
Req(m, p, b) == [method |-> m, path |-> p, body |-> b]

NoReq == Req("", <<>>, NoBody)

\* http.HandleFunc("/books", ...) matches that path alone, for every method;
\* http.HandleFunc("/books/", ...) matches the subtree and switches on the
\* method.
Route(q) ==
    IF q.path = BooksPath THEN "getAllBooks"
    ELSE IF HasPrefix(q.path, ItemPrefix)
    THEN CASE q.method = "GET"    -> "getBookById"
           [] q.method = "POST"   -> "createBook"
           [] q.method = "PUT"    -> "updateBook"
           [] q.method = "DELETE" -> "deleteBook"
           [] OTHER               -> "methodNotAllowed"
    ELSE "notFound"

(***************************************************************************)
(* A goroutine: the handler it runs, where it stands in it (pc), its       *)
(* locals (id, book), the response it has written, and, kept while it      *)
(* holds the mutex, the books map (pre) and the history (seen) as they     *)
(* were when it took the mutex.                                            *)
(***************************************************************************)
\* no mutation answered yet
NoHistory == [i \in {} |-> [op |-> "", body |-> NoBody]]

Idle ==
    [pc |-> "idle", handler |-> "", req |-> NoReq, id |-> 0,
     book |-> ZeroBook, resp |-> NoResp, pre |-> EmptyStore, seen |-> NoHistory]

\* return: what is left to do is the deferred mtx.Unlock()
Return(l, resp) == [l EXCEPT !.pc = "unlock", !.resp = resp]

Out(l, store) == [l |-> l, store |-> store]

\* the first statement group of a handler after mtx.Lock()
Entry(handler) ==
    CASE handler = "getAllBooks" -> "getAll:encode"
      [] handler = "getBookById" -> "get:atoi"
      [] handler = "createBook"  -> "create:decode"
      [] handler = "updateBook"  -> "update:atoi"
      [] handler = "deleteBook"  -> "delete:atoi"

getAllBooksStep(l, store) ==
    Out(Return(l, Respond(JsonType, 200, EncodeBooks(store))), store)

getBookByIdStep(l, store) ==
    CASE l.pc = "get:atoi" ->
           LET a == Atoi(TrimPrefix(l.req.path, ItemPrefix))
           IN  IF a.err
               THEN Out(Return(l, HttpError(400, "Invalid book ID")), store)
               ELSE Out([l EXCEPT !.id = a.val, !.pc = "get:lookup"], store)
      [] l.pc = "get:lookup" ->
           IF ~Exists(store, l.id)
           THEN Out(Return(l, HttpError(404, "Book not found")), store)
           ELSE Out(Return(l, Respond(JsonType, 200, Encode(store[l.id]))), store)

\* if newBook.ID == 0
IdRequiredMut(b) == FALSE

IdRequired(b) == b.ID = 0

\* the key of books[newBook.ID] = newBook
CreateKeyMut(q, b) ==
    LET a == Atoi(TrimPrefix(q.path, ItemPrefix))
    IN  IF a.err THEN b.ID ELSE a.val

CreateKey(q, b) == b.ID

\* the insert done before the existence check is acted on
createBookStepMut(l, store) ==
    CASE l.pc = "create:decode" ->
           LET d == Decode(l.req.body)
           IN  IF d.err
               THEN Out(Return(l, HttpError(400, "Invalid input")), store)
               ELSE IF IdRequired(d.book)
               THEN Out(Return(l, HttpError(400, "Book id is required")), store)
               ELSE Out([l EXCEPT !.book = d.book, !.pc = "create:exists"], store)
      [] l.pc = "create:exists" ->
           IF Exists(store, CreateKey(l.req, l.book))
           THEN Out(Return(l, HttpError(409, "Book already exists")),
                    Put(store, CreateKey(l.req, l.book), l.book))
           ELSE Out([l EXCEPT !.pc = "create:insert"], store)
      [] l.pc = "create:insert" ->
           Out(Return(l, Respond("", 201, Encode(l.book))),
               Put(store, CreateKey(l.req, l.book), l.book))

createBookStep(l, store) ==
    CASE l.pc = "create:decode" ->
           LET d == Decode(l.req.body)
           IN  IF d.err
               THEN Out(Return(l, HttpError(400, "Invalid input")), store)
               ELSE IF IdRequired(d.book)
               THEN Out(Return(l, HttpError(400, "Book id is required")), store)
               ELSE Out([l EXCEPT !.book = d.book, !.pc = "create:exists"], store)
      [] l.pc = "create:exists" ->
           IF Exists(store, CreateKey(l.req, l.book))
           THEN Out(Return(l, HttpError(409, "Book already exists")), store)
           ELSE Out([l EXCEPT !.pc = "create:insert"], store)
      [] l.pc = "create:insert" ->
           Out(Return(l, Respond("", 201, Encode(l.book))),
               Put(store, CreateKey(l.req, l.book), l.book))

\* if updatedBook.ID != id
IdMismatchMut(b, id) == FALSE

IdMismatch(b, id) == b.ID # id

updateBookStep(l, store) ==
    CASE l.pc = "update:atoi" ->
           LET a == Atoi(TrimPrefix(l.req.path, ItemPrefix))
           IN  IF a.err
               THEN Out(Return(l, HttpError(400, "Invalid book ID")), store)
               ELSE Out([l EXCEPT !.id = a.val, !.pc = "update:exists"], store)
      [] l.pc = "update:exists" ->
           IF ~Exists(store, l.id)
           THEN Out(Return(l, HttpError(404, "Book not found")), store)
           ELSE Out([l EXCEPT !.pc = "update:decode"], store)
      [] l.pc = "update:decode" ->
           LET d == Decode(l.req.body)
           IN  IF d.err
               THEN Out(Return(l, HttpError(400, "Invalid input")), store)
               ELSE IF IdMismatch(d.book, l.id)
               THEN Out(Return(l, HttpError(400,
                        "Book id in the URL must match the id in the body")), store)
               ELSE Out([l EXCEPT !.book = d.book, !.pc = "update:store"], store)
      [] l.pc = "update:store" ->
           Out(Return(l, Respond("", 200, Encode(l.book))),
               Put(store, l.id, l.book))

deleteBookStep(l, store) ==
    CASE l.pc = "delete:atoi" ->
           LET a == Atoi(TrimPrefix(l.req.path, ItemPrefix))
           IN  IF a.err
               THEN Out(Return(l, HttpError(400, "Invalid book ID")), store)
               ELSE Out([l EXCEPT !.id = a.val, !.pc = "delete:exists"], store)
      [] l.pc = "delete:exists" ->
           IF ~Exists(store, l.id)
           THEN Out(Return(l, HttpError(404, "Book not found")), store)
           ELSE Out([l EXCEPT !.pc = "delete:delete"], store)
      [] l.pc = "delete:delete" ->
           Out(Return(l, Respond("", 204, NoBody)), Remove(store, l.id))

\* one statement group of whichever handler the goroutine runs
HandlerStep(l, store) ==
    CASE l.handler = "getAllBooks" -> getAllBooksStep(l, store)
      [] l.handler = "getBookById" -> getBookByIdStep(l, store)
      [] l.handler = "createBook"  -> createBookStep(l, store)
      [] l.handler = "updateBook"  -> updateBookStep(l, store)
      [] l.handler = "deleteBook"  -> deleteBookStep(l, store)

InHandler(l) == l.pc \notin {"idle", "lock", "unlock", "done"}

\* a handler run from mtx.Lock() to its return with no other goroutine
\* taking a step: the request as a single atomic operation
RECURSIVE RunHandler(_, _)
RunHandler(l, store) ==
    IF ~InHandler(l) THEN Out(l, store)
    ELSE LET o == HandlerStep(l, store) IN RunHandler(o.l, o.store)

Atomic(q, store) ==
    RunHandler([Idle EXCEPT !.handler = Route(q), !.req = q,
                            !.pc = Entry(Route(q)), !.pre = store], store)

(***************************************************************************)
(* History: for each id, the last request on it that was answered with a   *)
(* success status by create (201), update (200) or delete (204), as a      *)
(* client sees it: the id is the one the request names (the body id of a   *)
(* create, the path id of an update or a delete).                          *)
(***************************************************************************)
Mutated(l) ==
    /\ l.pc = "unlock"
    /\ \/ l.handler = "createBook" /\ l.resp.status = 201
       \/ l.handler = "updateBook" /\ l.resp.status = 200
       \/ l.handler = "deleteBook" /\ l.resp.status = 204

NamedId(q) ==
    IF Route(q) = "createBook"
    THEN Decode(q.body).book.ID
    ELSE Atoi(TrimPrefix(q.path, ItemPrefix)).val

Note(h, l) ==
    IF ~Mutated(l) THEN h
    ELSE [i \in DOMAIN h \cup {NamedId(l.req)} |->
            IF i = NamedId(l.req)
            THEN [op |-> l.handler, body |-> l.req.body]
            ELSE h[i]]

(***************************************************************************)
(* The requests of the model.                                              *)
(***************************************************************************)
Item(seg) == ItemPrefix \o seg

Full1   == JsonObject([id |-> Num(1), title |-> Str("A"), description |-> Str("D"),
                       author |-> Str("X"), publication_year |-> Num(2000)])
Sparse1 == JsonObject([id |-> Num(1), title |-> Str("B")])
Full2   == JsonObject([id |-> Num(2), title |-> Str("A"), author |-> Str("Y")])
Full3   == JsonObject([id |-> Num(3), title |-> Str("C")])
NoId    == JsonObject([title |-> Str("A")])
BadType == JsonObject([id |-> Str("1"), title |-> Str("A")])

Bodies == {Full1, Sparse1, Full2, NoId, BadType, Garbage}

\* requests served concurrently under Spec
Requests ==
    {Req("GET", BooksPath, NoBody),
     Req("GET", Item(<<"1">>), NoBody),
     Req("POST", Item(<<"1">>), Full1),
     Req("POST", Item(<<"2">>), Sparse1),
     Req("POST", Item(<<"2">>), Full2),
     Req("PUT", Item(<<"1">>), Sparse1),
     Req("PUT", Item(<<"2">>), Garbage),
     Req("DELETE", Item(<<"1">>), NoBody),
     Req("PATCH", Item(<<"1">>), NoBody)}

\* create requests served concurrently under SpecCreates
Creates ==
    {Req("POST", Item(seg), b) :
        seg \in {<<"1">>, <<"x">>}, b \in {Full1, Sparse1, Full2, Full3, NoId}}

\* path segments and requests under SpecWide
Segs == {<<"1">>, <<"2">>, <<"0">>, <<"+", "1">>, <<"a", "b", "c">>, <<>>}

AllRequests ==
    {Req(m, BooksPath, NoBody) : m \in {"GET", "POST"}}
    \cup {Req("GET", Item(seg), NoBody) : seg \in Segs}
    \cup {Req("DELETE", Item(seg), NoBody) : seg \in Segs \ {<<"+", "1">>}}
    \cup {Req("PATCH", Item(<<"1">>), NoBody)}
    \cup {Req("POST", Item(<<"1">>), b) : b \in Bodies}
    \cup {Req("POST", Item(<<"2">>), b) : b \in {Full1, Sparse1}}
    \cup {Req("POST", Item(<<"a", "b", "c">>), Full1)}
    \cup {Req("PUT", Item(<<"1">>), b) : b \in Bodies}
    \cup {Req("PUT", Item(<<"2">>), b) : b \in {Full1, Garbage}}
    \cup {Req("PUT", Item(<<"a", "b", "c">>), Garbage),
          Req("PUT", Item(<<>>), Full1),
          Req("PUT", Item(<<"+", "1">>), Sparse1),
          Req("PUT", Item(<<"0">>), NoId)}

(***************************************************************************)
(* Actions.                                                                *)
(***************************************************************************)
\* net/http starts a goroutine for the request and the mux dispatches it;
\* a method the switch does not know is answered at once, with no lock taken.
Arrive(r, q) ==
    /\ gr[r].pc \in {"idle", "done"}
    /\ gr' = [gr EXCEPT ![r] =
                CASE Route(q) = "methodNotAllowed" ->
                       [Idle EXCEPT !.pc = "done", !.handler = Route(q), !.req = q,
                                    !.resp = HttpError(405, "Unsupported method")]
                  [] Route(q) = "notFound" ->
                       [Idle EXCEPT !.pc = "done", !.handler = Route(q), !.req = q,
                                    !.resp = HttpError(404, "404 page not found")]
                  [] OTHER ->
                       [Idle EXCEPT !.pc = "lock", !.handler = Route(q), !.req = q]]
    /\ UNCHANGED <<books, mtx, last>>

\* mtx.Lock() returns only when the mutex was unlocked
LockableMut(m) == TRUE

Lockable(m) == m = FALSE

Lock(r) ==
    /\ gr[r].pc = "lock"
    /\ Lockable(mtx)
    /\ mtx' = TRUE
    /\ gr' = [gr EXCEPT ![r].pc = Entry(gr[r].handler), ![r].pre = books,
                        ![r].seen = last]
    /\ UNCHANGED <<books, last>>

Step(r) ==
    /\ InHandler(gr[r])
    /\ LET o == HandlerStep(gr[r], books)
       IN  /\ gr' = [gr EXCEPT ![r] = o.l]
           /\ books' = o.store
           /\ last' = Note(last, o.l)
    /\ UNCHANGED mtx

GetAllBooks(r) == gr[r].handler = "getAllBooks" /\ Step(r)
GetBookById(r) == gr[r].handler = "getBookById" /\ Step(r)
CreateBook(r)  == gr[r].handler = "createBook" /\ Step(r)
UpdateBook(r)  == gr[r].handler = "updateBook" /\ Step(r)
DeleteBook(r)  == gr[r].handler = "deleteBook" /\ Step(r)

\* defer mtx.Unlock(), on every return of every handler
UnlockMut(r) ==
    /\ gr[r].pc = "unlock"
    /\ mtx' = (gr[r].resp.status >= 400)
    /\ gr' = [gr EXCEPT ![r].pc = "done", ![r].pre = EmptyStore,
                        ![r].seen = NoHistory, ![r].id = 0, ![r].book = ZeroBook]
    /\ UNCHANGED <<books, last>>

Unlock(r) ==
    /\ gr[r].pc = "unlock"
    /\ mtx' = FALSE
    /\ gr' = [gr EXCEPT ![r].pc = "done", ![r].pre = EmptyStore,
                        ![r].seen = NoHistory, ![r].id = 0, ![r].book = ZeroBook]
    /\ UNCHANGED <<books, last>>

Handle(r) ==
    \/ Lock(r)
    \/ GetAllBooks(r)
    \/ GetBookById(r)
    \/ CreateBook(r)
    \/ UpdateBook(r)
    \/ DeleteBook(r)
    \/ Unlock(r)

(***************************************************************************)
(* Spec: NumReqs goroutines at a time, each worker serving one request     *)
(* after another, drawn from Requests.                                     *)
(***************************************************************************)
Workers == 1..NumReqs

Init ==
    /\ books = EmptyStore
    /\ mtx = FALSE
    /\ gr = [r \in Workers |-> Idle]
    /\ last = NoHistory

Next ==
    \E r \in Workers :
        \/ \E q \in Requests : Arrive(r, q)
        \/ Handle(r)

Spec == Init /\ [][Next]_vars

(***************************************************************************)
(* SpecWide: NumClients goroutines at a time, requests drawn from          *)
(* AllRequests (every method, every path segment shape, every body shape). *)
(***************************************************************************)
Clients == 1..NumClients

InitWide ==
    /\ books = EmptyStore
    /\ mtx = FALSE
    /\ gr = [r \in Clients |-> Idle]
    /\ last = NoHistory

NextWide ==
    \E r \in Clients :
        \/ \E q \in AllRequests : Arrive(r, q)
        \/ Handle(r)

SpecWide == InitWide /\ [][NextWide]_vars

(***************************************************************************)
(* SpecCreates: from the empty store, NumReqs create requests, one per     *)
(* worker and all in flight together, and one more goroutine (worker 0)    *)
(* that lists the store whenever it likes.  Nothing else runs.             *)
(***************************************************************************)
Lister == 0

InitCreates ==
    /\ books = EmptyStore
    /\ mtx = FALSE
    /\ gr = [r \in Workers \cup {Lister} |-> Idle]
    /\ last = NoHistory

ArriveOnce(r, q) == gr[r].pc = "idle" /\ Arrive(r, q)

NextCreates ==
    \/ \E r \in Workers : \E q \in Creates : ArriveOnce(r, q)
    \/ Arrive(Lister, Req("GET", BooksPath, NoBody))
    \/ \E r \in Workers \cup {Lister} :
          \/ Lock(r)
          \/ CreateBook(r)
          \/ GetAllBooks(r)
          \/ Unlock(r)

SpecCreates == InitCreates /\ [][NextCreates]_vars

(***************************************************************************)
(* SpecLive: Spec on a smaller mix of requests, with the scheduling the Go *)
(* runtime gives: a goroutine that can run a statement of its handler, or  *)
(* its deferred Unlock, eventually runs it (weak fairness), and a          *)
(* goroutine blocked in mtx.Lock() eventually gets the mutex if it is      *)
(* unlocked again and again (strong fairness: sync.Mutex hands the mutex   *)
(* to a waiter that has waited long, so no waiter starves).  Requests      *)
(* arrive whenever clients send them, with no fairness.                    *)
(***************************************************************************)
LiveRequests ==
    {Req("GET", BooksPath, NoBody),
     Req("GET", Item(<<"a", "b", "c">>), NoBody),
     Req("POST", Item(<<"1">>), Full1),
     Req("PUT", Item(<<"1">>), Garbage),
     Req("DELETE", Item(<<"1">>), NoBody),
     Req("PATCH", Item(<<"1">>), NoBody)}

NextLive ==
    \E r \in Workers :
        \/ \E q \in LiveRequests : Arrive(r, q)
        \/ Handle(r)

Run(r) ==
    \/ GetAllBooks(r)
    \/ GetBookById(r)
    \/ CreateBook(r)
    \/ UpdateBook(r)
    \/ DeleteBook(r)
    \/ Unlock(r)

SpecLive ==
    /\ Init
    /\ [][NextLive]_vars
    /\ \A r \in Workers : WF_vars(Run(r)) /\ SF_vars(Lock(r))

(***************************************************************************)
(* Vocabulary of the properties.                                           *)
(***************************************************************************)
Goroutines == DOMAIN gr

\* the handler has returned: its response is written, its Unlock is pending
Returned(r) == gr[r].pc = "unlock"

Done(r) == gr[r].pc = "done"

\* the record a request body carries, as a client means it
Sent(q) == Decode(q.body).book

WellFormed(q) == ~Decode(q.body).err

\* the path segment after /books/
Seg(q) == SubSeq(q.path, Len(ItemPrefix) + 1, Len(q.path))

(***************************************************************************)
(* C1.  M concurrent creates that all carry the same non-zero body id,     *)
(* from a store that does not hold it and with no delete running: exactly  *)
(* one is answered 201 and the other M-1 are answered 409, in every        *)
(* interleaving, and afterwards the store holds exactly one entry for that *)
(* id, equal to the body of the request answered 201.                      *)
(***************************************************************************)
SameIdCreates ==
    /\ \A r \in Workers : Done(r) /\ WellFormed(gr[r].req)
    /\ \E i \in {1, 2, 3} : \A r \in Workers : Sent(gr[r].req).ID = i

C1_OneCreateWins ==
    SameIdCreates =>
        LET winners == {r \in Workers : gr[r].resp.status = 201}
        IN  /\ Cardinality(winners) = 1
            /\ \A r \in Workers \ winners : gr[r].resp.status = 409
            /\ \A r \in winners :
                  /\ DOMAIN books = {Sent(gr[r].req).ID}
                  /\ books[Sent(gr[r].req).ID] = Sent(gr[r].req)
                  /\ gr[r].resp.body = Encode(Sent(gr[r].req))

\* the creates carried different records for the one id, and the second
\* worker's was the one stored
C1_Witness ==
    /\ SameIdCreates
    /\ gr[1].req.body = Full1 /\ gr[1].resp.status = 409
    /\ gr[2].req.body = Sparse1 /\ gr[2].resp.status = 201

(***************************************************************************)
(* C6.  From the empty store, N concurrent creates with N pairwise         *)
(* distinct non-zero body ids are all answered 201 in every interleaving,  *)
(* and once all have completed the store, and a list request served then,  *)
(* hold exactly those N entries.                                           *)
(***************************************************************************)
DistinctCreates ==
    /\ \A r \in Workers : Done(r) /\ WellFormed(gr[r].req) /\ Sent(gr[r].req).ID # 0
    /\ \A r1, r2 \in Workers : r1 # r2 => Sent(gr[r1].req).ID # Sent(gr[r2].req).ID

C6_DistinctCreatesAllSucceed ==
    DistinctCreates =>
        LET ids == {Sent(gr[r].req).ID : r \in Workers}
        IN  /\ \A r \in Workers : gr[r].resp.status = 201
            /\ DOMAIN books = ids
            /\ Cardinality(DOMAIN books) = NumReqs
            /\ \A r \in Workers : books[Sent(gr[r].req).ID] = Sent(gr[r].req)
            /\ Returned(Lister) =>
                  /\ gr[Lister].resp.status = 200
                  /\ DOMAIN gr[Lister].resp.body.fields = {Itoa(i) : i \in ids}
                  /\ Cardinality(DOMAIN gr[Lister].resp.body.fields) = NumReqs
                  /\ \A r \in Workers :
                        gr[Lister].resp.body.fields[Itoa(Sent(gr[r].req).ID)]
                            = Encode(Sent(gr[r].req))

C6_Witness ==
    /\ DistinctCreates
    /\ Returned(Lister)
    /\ gr[Lister].seen # NoHistory

(***************************************************************************)
(* C2.  A PUT to /books/{p} with a parseable p whose body is malformed or  *)
(* whose decoded body id differs from p is answered 400 and leaves the     *)
(* store unchanged in every store state, whether or not p is stored: the   *)
(* body and the agreement of the ids are validated before the existence    *)
(* check that yields 404.                                                  *)
(***************************************************************************)
\* the segment is a decimal integer, as a client writes one
IsInteger(seg) ==
    LET ds == IF seg # <<>> /\ Head(seg) \in {"+", "-"} THEN Tail(seg) ELSE seg
    IN  ds # <<>> /\ \A i \in 1..Len(ds) : ds[i] \in Digits

\* the integer a decimal segment of one digit, signed or not, denotes
Decimals(n) ==
    IF n < 0 THEN {<<"-", DigitStr(0 - n)>>}
    ELSE {<<DigitStr(n)>>, <<"+", DigitStr(n)>>} \cup (IF n = 0 THEN {<<"-", "0">>} ELSE {})

PathId(seg) == CHOOSE n \in -9..9 : seg \in Decimals(n)

BadUpdateBody(q) ==
    \/ ~WellFormed(q)
    \/ Sent(q).ID # PathId(Seg(q))

C2_ValidationBeforeExistence ==
    \A r \in Goroutines :
        (/\ Returned(r)
         /\ gr[r].handler = "updateBook"
         /\ IsInteger(Seg(gr[r].req))
         /\ BadUpdateBody(gr[r].req))
        => /\ gr[r].resp.status = 400
           /\ books = gr[r].pre

(***************************************************************************)
(* C3.  After a PUT to /books/{p} is answered 200 with body record B, the  *)
(* entry stored under p equals B in every field: nothing of the record     *)
(* stored before survives, and the fields the request left out read back   *)
(* as empty or zero on the next GET of p.                                  *)
(***************************************************************************)
\* the JSON value of a field that was left out
ZeroJson(k) == IF k \in NumKeys THEN Num(0) ELSE Str("")

C3_UpdateReplacesWholesale ==
    \A r \in Goroutines :
        /\ (/\ Returned(r)
            /\ gr[r].handler = "updateBook"
            /\ gr[r].resp.status = 200)
           => LET p == PathId(Seg(gr[r].req))
                  B == Decode(gr[r].resp.body).book
              IN  /\ B = Sent(gr[r].req)
                  /\ p \in DOMAIN books
                  /\ books[p] = B
                  /\ DOMAIN books = DOMAIN gr[r].pre
                  /\ \A i \in DOMAIN books \ {p} : books[i] = gr[r].pre[i]
        /\ (/\ Returned(r)
            /\ gr[r].handler = "getBookById"
            /\ IsInteger(Seg(gr[r].req))
            /\ PathId(Seg(gr[r].req)) \in DOMAIN gr[r].seen
            /\ gr[r].seen[PathId(Seg(gr[r].req))].op = "updateBook")
           => LET sent == gr[r].seen[PathId(Seg(gr[r].req))].body
              IN  /\ gr[r].resp.status = 200
                  /\ gr[r].resp.body = Encode(Decode(sent).book)
                  /\ \A k \in (NumKeys \cup StrKeys) \ DOMAIN sent.fields :
                        gr[r].resp.body.fields[k] = ZeroJson(k)
                  /\ \A k \in DOMAIN sent.fields :
                        gr[r].resp.body.fields[k] = sent.fields[k]

\* an update that left the author out replaced a record that had one
C3_Witness ==
    \E r \in Goroutines :
        /\ Returned(r)
        /\ gr[r].handler = "updateBook"
        /\ gr[r].resp.status = 200
        /\ gr[r].req.body = Sparse1
        /\ gr[r].pre[1].Author = "X"

\* ... and a GET served after it
C3_WitnessGet ==
    \E r \in Goroutines :
        /\ Returned(r)
        /\ gr[r].handler = "getBookById"
        /\ gr[r].resp.status = 200
        /\ 1 \in DOMAIN gr[r].seen
        /\ gr[r].seen[1] = [op |-> "updateBook", body |-> Sparse1]
        /\ \E w \in Goroutines : gr[w].req.body = Full1 /\ gr[w].resp.status = 201

(***************************************************************************)
(* C4.  Round trip, read your writes: once a create of record B is         *)
(* answered 201, a GET of B.id served afterwards, with no update or delete *)
(* of that id answered with success in between, is answered 200 with a     *)
(* record equal to B in all fields, and a list served afterwards contains  *)
(* that entry.                                                             *)
(***************************************************************************)
C4_ReadYourWrites ==
    \A r \in Goroutines :
        /\ (/\ Returned(r)
            /\ gr[r].handler = "getBookById"
            /\ IsInteger(Seg(gr[r].req))
            /\ PathId(Seg(gr[r].req)) \in DOMAIN gr[r].seen
            /\ gr[r].seen[PathId(Seg(gr[r].req))].op = "createBook")
           => /\ gr[r].resp.status = 200
              /\ gr[r].resp.ctype = JsonType
              /\ WellFormed(gr[r].resp)
              /\ Sent(gr[r].resp) = Decode(gr[r].seen[PathId(Seg(gr[r].req))].body).book
        /\ (Returned(r) /\ gr[r].handler = "getAllBooks")
           => \A i \in DOMAIN gr[r].seen :
                 gr[r].seen[i].op = "createBook"
                 => /\ gr[r].resp.status = 200
                    /\ Itoa(i) \in DOMAIN gr[r].resp.body.fields
                    /\ Decode(gr[r].resp.body.fields[Itoa(i)]).book
                          = Decode(gr[r].seen[i].body).book

\* a GET of the id a create of the full record was answered 201 for
C4_Witness ==
    \E r \in Goroutines :
        /\ Returned(r)
        /\ gr[r].handler = "getBookById"
        /\ 1 \in DOMAIN gr[r].seen
        /\ gr[r].seen[1] = [op |-> "createBook", body |-> Full1]
        /\ gr[r].resp.status = 200

(***************************************************************************)
(* C5.  Delete is not idempotent: a DELETE of a stored id is answered 204  *)
(* and removes that entry; a second DELETE of the same id, with no create  *)
(* of it in between, is answered 404 and changes nothing; a GET of that id *)
(* after the first delete is answered 404.                                 *)
(***************************************************************************)
Deleted(r) ==
    /\ IsInteger(Seg(gr[r].req))
    /\ PathId(Seg(gr[r].req)) \in DOMAIN gr[r].seen
    /\ gr[r].seen[PathId(Seg(gr[r].req))].op = "deleteBook"

C5_DeleteTwice ==
    \A r \in Goroutines :
        /\ (/\ Returned(r)
            /\ gr[r].handler = "deleteBook"
            /\ IsInteger(Seg(gr[r].req))
            /\ PathId(Seg(gr[r].req)) \in DOMAIN gr[r].pre)
           => /\ gr[r].resp.status = 204
              /\ gr[r].resp.body = NoBody
              /\ DOMAIN books = DOMAIN gr[r].pre \ {PathId(Seg(gr[r].req))}
              /\ \A i \in DOMAIN books : books[i] = gr[r].pre[i]
        /\ (Returned(r) /\ gr[r].handler = "deleteBook" /\ Deleted(r))
           => /\ gr[r].resp.status = 404
              /\ books = gr[r].pre
        /\ (Returned(r) /\ gr[r].handler = "getBookById" /\ Deleted(r))
           => gr[r].resp.status = 404

\* the second of two deletes of an id, while another entry is stored
C5_Witness ==
    \E r \in Goroutines :
        /\ Returned(r)
        /\ gr[r].handler = "deleteBook"
        /\ Deleted(r)
        /\ gr[r].resp.status = 404

(***************************************************************************)
(* C7.  Serializability: in every concurrent execution of any mix of list, *)
(* get, create, update and delete requests, each request's response and    *)
(* its effect on the store are those of the request run as one atomic step *)
(* on the store it found when it took the mutex, so the execution equals   *)
(* the sequential one in the order the mutex was taken; at every point of  *)
(* a handler, what is left of it still leads to that atomic outcome.       *)
(***************************************************************************)
C7_Serializable ==
    \A r \in Goroutines :
        (InHandler(gr[r]) \/ Returned(r)) =>
            LET a == Atomic(gr[r].req, gr[r].pre)
                c == RunHandler(gr[r], books)
            IN  /\ c.l.resp = a.l.resp
                /\ c.store = a.store
                /\ Returned(r) => gr[r].resp = a.l.resp /\ books = a.store

\* an update has replaced a record while a delete of the same id and
\* nothing else waits for the mutex
C7_Witness ==
    \E r1, r2 \in Goroutines :
        /\ Returned(r1)
        /\ gr[r1].handler = "updateBook"
        /\ gr[r1].resp.status = 200
        /\ gr[r1].pre # books
        /\ gr[r2].pc = "lock"
        /\ gr[r2].handler = "deleteBook"

(***************************************************************************)
(* C8.  A request that ends in an error status leaves the store exactly as *)
(* it was: in every store state, a request answered 400, 404, 405 or 409   *)
(* (a create of an id already present among them, which must not overwrite *)
(* the record) changes neither the set of stored ids nor any record.       *)
(***************************************************************************)
ErrorStatuses == {400, 404, 405, 409}

\* the step in which the response of r's request is written
Answers(r) ==
    /\ gr'[r] # gr[r]
    /\ gr[r].pc # "unlock"
    /\ gr'[r].pc \in {"unlock", "done"}

C8_ErrorsLeaveStore ==
    [][\A r \in Goroutines :
          (Answers(r) /\ gr'[r].resp.status \in ErrorStatuses)
          => /\ books' = books
             /\ gr'[r].pc = "unlock" => books' = gr'[r].pre]_vars

\* a create answered 409 whose body differs from the record stored
C8_Witness ==
    \E r \in Goroutines :
        /\ Returned(r)
        /\ gr[r].handler = "createBook"
        /\ gr[r].resp.status = 409
        /\ gr[r].pre[Sent(gr[r].req).ID] # Sent(gr[r].req)
        /\ books = gr[r].pre

(***************************************************************************)
(* C9.  A GET, PUT or DELETE on /books/{x} where x does not parse as an    *)
(* integer (the empty segment included) is answered 400 in every store     *)
(* state, never 404 or 500, and does not change the store.                 *)
(***************************************************************************)
C9_UnparseableIdIs400 ==
    \A r \in Goroutines :
        (/\ Returned(r)
         /\ gr[r].handler \in {"getBookById", "updateBook", "deleteBook"}
         /\ ~IsInteger(Seg(gr[r].req)))
        => /\ gr[r].resp.status = 400
           /\ gr[r].resp.body = Text("Invalid book ID")
           /\ books = gr[r].pre

\* a PUT on the empty segment with a well-formed body, the store not empty
C9_Witness ==
    \E r \in Goroutines :
        /\ Returned(r)
        /\ gr[r].handler = "updateBook"
        /\ Seg(gr[r].req) = <<>>
        /\ WellFormed(gr[r].req)
        /\ books # EmptyStore
        /\ gr[r].resp.status = 400

(***************************************************************************)
(* C10.  The outcome of a create depends on the request body and the store *)
(* alone, never on the path segment: two POSTs with the same body in the   *)
(* same store state, one on the body id and one on another segment or on   *)
(* one that is no integer, get the same status and leave the same store,   *)
(* and the record is stored under the body id.                             *)
(***************************************************************************)
C10_CreateIgnoresPath ==
    \A r \in Goroutines :
        (Returned(r) /\ gr[r].handler = "createBook")
        => /\ \A seg \in Segs :
                LET a == Atomic(Req("POST", Item(seg), gr[r].req.body), gr[r].pre)
                IN  /\ a.l.resp = gr[r].resp
                    /\ a.store = books
           /\ gr[r].resp.status = 201
              => /\ DOMAIN books = DOMAIN gr[r].pre \cup {Sent(gr[r].req).ID}
                 /\ books[Sent(gr[r].req).ID] = Sent(gr[r].req)

\* a create answered 201 on a segment that is another id than the body's
C10_Witness ==
    \E r \in Goroutines :
        /\ Returned(r)
        /\ gr[r].handler = "createBook"
        /\ gr[r].resp.status = 201
        /\ Seg(gr[r].req) = <<"2">>
        /\ Sent(gr[r].req).ID = 1
        /\ 2 \notin DOMAIN books

(***************************************************************************)
(* C11.  A list request (GET /books) is always answered 200 and its body   *)
(* is a consistent snapshot: the id-to-Book mapping it returns is the      *)
(* whole store as it was at one instant between the start and the end of   *)
(* the request (the empty mapping for the empty store), also while         *)
(* creates, updates and deletes run concurrently.                          *)
(***************************************************************************)
\* the body is the JSON object of exactly the entries of store
IsSnapshotOf(body, store) ==
    /\ body.kind = "object"
    /\ DOMAIN body.fields = {Itoa(i) : i \in DOMAIN store}
    /\ \A i \in DOMAIN store :
          /\ ~Decode(body.fields[Itoa(i)]).err
          /\ Decode(body.fields[Itoa(i)]).book = store[i]

C11_ListIsSnapshot ==
    \A r \in Goroutines :
        (Returned(r) /\ gr[r].handler = "getAllBooks")
        => /\ gr[r].resp.status = 200
           /\ gr[r].resp.ctype = JsonType
           /\ IsSnapshotOf(gr[r].resp.body, gr[r].pre)
           /\ IsSnapshotOf(gr[r].resp.body, books)
           /\ gr[r].pre = EmptyStore => DOMAIN gr[r].resp.body.fields = {}

\* a list of two entries is answered while a delete waits for the mutex
C11_Witness ==
    \E r, w \in Goroutines :
        /\ Returned(r)
        /\ gr[r].handler = "getAllBooks"
        /\ DOMAIN gr[r].pre = {1, 2}
        /\ gr[w].pc = "lock"
        /\ gr[w].handler = "deleteBook"

(***************************************************************************)
(* C12.  Every request that starts eventually completes with a response,   *)
(* under fair scheduling of the handlers and of the lock: no set of        *)
(* concurrent requests can deadlock, and the store lock is released on     *)
(* every exit path of every handler, each early error return included (the *)
(* mutex is locked exactly while some handler is between Lock and Unlock). *)
(***************************************************************************)
\* r is between mtx.Lock() and the deferred mtx.Unlock()
InCriticalSection(r) == InHandler(gr[r]) \/ Returned(r)

C12_EveryRequestCompletes ==
    /\ [](mtx <=> \E r \in Goroutines : InCriticalSection(r))
    /\ \A r \in Workers :
          (gr[r].pc \notin {"idle", "done"})
              ~> (Done(r) /\ gr[r].resp.status \in {200, 201, 204, 400, 404, 405, 409})

\* after a handler returned early with an error, another one runs
C12_Witness ==
    \E r, w \in Goroutines :
        /\ Done(r)
        /\ gr[r].handler = "updateBook"
        /\ gr[r].resp.status = 404
        /\ InHandler(gr[w])
        /\ gr[w].handler = "createBook"

C14_NoIdZero ==
    /\ 0 \notin DOMAIN books
    /\ \A i \in DOMAIN books : books[i].ID # 0
    /\ \A r \in Goroutines :
          /\ (/\ Returned(r)
              /\ gr[r].handler = "createBook"
              /\ gr[r].req.body.kind = "object"
              /\ \/ "id" \notin DOMAIN gr[r].req.body.fields
                 \/ gr[r].req.body.fields["id"] = Num(0))
             => /\ gr[r].resp.status = 400
                /\ books = gr[r].pre
          /\ (/\ Returned(r) \/ Done(r)
              /\ gr[r].handler \in {"getBookById", "updateBook", "deleteBook"}
              /\ Seg(gr[r].req) = <<"0">>)
             => gr[r].resp.status \in {400, 404}

\* a create with no id in its body has been turned down, the store not empty
C14_Witness ==
    \E r \in Goroutines :
        /\ Returned(r)
        /\ gr[r].handler = "createBook"
        /\ gr[r].req.body = NoId
        /\ gr[r].resp = HttpError(400, "Book id is required")
        /\ books # EmptyStore

\* a PUT on /books/0 with a body of id 0 has been turned down
C14_WitnessPut ==
    \E r \in Goroutines :
        /\ Returned(r)
        /\ gr[r].handler = "updateBook"
        /\ Seg(gr[r].req) = <<"0">>
        /\ gr[r].req.body = NoId
        /\ gr[r].resp.status = 404

(***************************************************************************)
(* C15.  Lifecycle and frame, across any single request: an id becomes     *)
(* present only through a create answered 201 (which adds exactly the body *)
(* id), a present id becomes absent only through a delete answered 204     *)
(* (which removes exactly the path id), and a stored record changes only   *)
(* through an update answered 200 on its own id; list and get requests     *)
(* change nothing, an update never changes the set of stored ids, and the  *)
(* entries under all other ids are left as they were.                      *)
(***************************************************************************)
Added(r)   == DOMAIN books \ DOMAIN gr[r].pre
Dropped(r) == DOMAIN gr[r].pre \ DOMAIN books
Changed(r) == {i \in DOMAIN books \cap DOMAIN gr[r].pre : books[i] # gr[r].pre[i]}

C15_LifecycleAndFrame ==
    \A r \in Goroutines :
        Returned(r) =>
            /\ Added(r) # {}
               => /\ gr[r].handler = "createBook"
                  /\ gr[r].resp.status = 201
                  /\ Added(r) = {Sent(gr[r].req).ID}
            /\ Dropped(r) # {}
               => /\ gr[r].handler = "deleteBook"
                  /\ gr[r].resp.status = 204
                  /\ Dropped(r) = {PathId(Seg(gr[r].req))}
            /\ Changed(r) # {}
               => /\ gr[r].handler = "updateBook"
                  /\ gr[r].resp.status = 200
                  /\ Changed(r) = {PathId(Seg(gr[r].req))}
            /\ gr[r].handler \in {"getAllBooks", "getBookById"} => books = gr[r].pre
            /\ gr[r].handler = "updateBook" => DOMAIN books = DOMAIN gr[r].pre
            /\ gr[r].handler = "createBook" => Dropped(r) = {} /\ Changed(r) = {}
            /\ gr[r].handler = "deleteBook" => Added(r) = {} /\ Changed(r) = {}
            /\ gr[r].resp.status = 201 => Added(r) # {}
            /\ gr[r].resp.status = 204 => Dropped(r) # {}

\* a delete answered 204 has left the other stored entry alone
C15_Witness ==
    \E r \in Goroutines :
        /\ Returned(r)
        /\ gr[r].handler = "deleteBook"
        /\ gr[r].resp.status = 204
        /\ DOMAIN gr[r].pre = {1, 2}
        /\ DOMAIN books = {2}
        /\ books[2] = gr[r].pre[2]

(***************************************************************************)
(* C16.  Mutual exclusion: at any instant at most one handler is between   *)
(* acquiring and releasing the store lock, and every read or write of the  *)
(* books map by any of the five handlers happens while that handler holds  *)
(* the lock; the check-then-act pairs of create (absent, then insert),     *)
(* update (present, then replace) and delete (present, then remove) are    *)
(* each inside one uninterrupted critical section.                         *)
(***************************************************************************)
C16_MutualExclusion ==
    /\ Cardinality({r \in Goroutines : InCriticalSection(r)}) <= 1
    /\ \A r \in Goroutines :
          /\ InCriticalSection(r) => mtx
          \* nothing has touched the map since r took the mutex, but r
          /\ InHandler(gr[r]) => books = gr[r].pre
          \* what r checked still holds when r acts on it
          /\ gr[r].pc = "create:insert" => gr[r].book.ID \notin DOMAIN books
          /\ gr[r].pc \in {"update:decode", "update:store"} => gr[r].id \in DOMAIN books
          /\ gr[r].pc = "delete:delete" => gr[r].id \in DOMAIN books

\* a create stands between its check and its insert while a create of the
\* same id waits for the mutex
C16_Witness ==
    \E r, w \in Goroutines :
        /\ gr[r].pc = "create:insert"
        /\ gr[w].pc = "lock"
        /\ gr[w].handler = "createBook"
        /\ WellFormed(gr[w].req)
        /\ Sent(gr[w].req).ID = gr[r].book.ID

(***************************************************************************)
(* C17.  Every success response that carries a body (200 from list, get    *)
(* and update, 201 from create) is sent with Content-Type                  *)
(* application/json; only the 204 of delete and the plain-text error       *)
(* responses are not.                                                      *)
(***************************************************************************)
Answered(r) == (Returned(r) \/ Done(r)) /\ gr[r].resp # NoResp

C17_SuccessIsJson ==
    \A r \in Goroutines :
        Answered(r) =>
            /\ gr[r].resp.status \in {200, 201} => gr[r].resp.ctype = JsonType
            /\ gr[r].resp.status = 204 => gr[r].resp.ctype # JsonType
            /\ gr[r].resp.status >= 400 => gr[r].resp.ctype = PlainText

(***************************************************************************)
(* C18.  Ordering within one request.  As claimed: the handler parses the  *)
(* path and the body before it acquires the store lock and releases the    *)
(* lock before it writes the JSON response, so no handler holds the lock   *)
(* while it reads the request body or writes the response.                 *)
(***************************************************************************)
\* r is about to parse its path segment or to decode its body
Parsing(r) ==
    gr[r].pc \in {"get:atoi", "create:decode", "update:atoi", "update:decode",
                  "delete:atoi"}

\* r has written its response and has not released the mutex
Written(r) == Returned(r) /\ gr[r].resp # NoResp

C18_LockOnlyAroundStore ==
    \A r \in Goroutines :
        (Parsing(r) \/ Written(r)) => ~(mtx /\ InCriticalSection(r))

(***************************************************************************)
(* C18 as amended: each of the five handlers acquires the store lock       *)
(* first, before it parses the path or the body, and releases it last, by  *)
(* the deferred Unlock that runs after the response is written; so a       *)
(* handler holds the lock while it reads the request body and while it     *)
(* writes its response, and a goroutine still waiting for the lock has     *)
(* parsed nothing and written nothing.                                     *)
(***************************************************************************)
C18_LockSpansHandler ==
    \A r \in Goroutines :
        /\ gr[r].pc = "lock"
           => gr[r].id = 0 /\ gr[r].book = ZeroBook /\ gr[r].resp = NoResp
        /\ Parsing(r)
           => /\ mtx
              /\ gr[r].resp = NoResp
              /\ \A w \in Goroutines \ {r} : ~InCriticalSection(w)
        /\ Returned(r)
           => /\ mtx
              /\ gr[r].resp # NoResp
              /\ \A w \in Goroutines \ {r} : ~InCriticalSection(w)
        /\ (Done(r) /\ gr[r].handler # "methodNotAllowed") => gr[r].resp # NoResp

\* a create has written its 201 and still holds the mutex, while an update
\* whose body is not yet read waits for it
C18_Witness ==
    \E r, w \in Goroutines :
        /\ Written(r)
        /\ gr[r].handler = "createBook"
        /\ gr[r].resp.status = 201
        /\ mtx
        /\ gr[w].pc = "lock"
        /\ gr[w].handler = "updateBook"

=============================================================================
